---- MODULE Spec2Model ----
(***************************************************************************)
(* A model of the SC16IS7x0 driver (package sc16is7x0, src/cmd/main.go).   *)
(*                                                                         *)
(* The program is modelled one bus transaction per step: every action is   *)
(* one call of the bus collaborator (ReadRegU8, WriteRegU8, NewI2C, Close) *)
(* together with the local computation that follows it up to the next     *)
(* transaction or the return of the API call.  The chip is modelled from   *)
(* the register map the source states (lines 43-74): which register a bus  *)
(* address reaches depends on the Line Control Register.                   *)
(***************************************************************************)
EXTENDS Integers, Sequences, FiniteSets, TLC

(***************************************************************************)
(* Bounds of the model.                                                    *)
(***************************************************************************)
\* longest buffer handed to Read and Write
MaxBuf == 2
\* largest value the receive FIFO level register reads
MaxLevel == 3
\* most polls of one poll loop that find the clock where the last one left it
MaxPolls == 1
\* largest advance of the clock between two readings of it, in ticks
MaxStep == 1
\* ticks of the model's clock in one second
TicksPerSecond == 2
\* most register writes of another execution context during one updateRegBit
MaxOtherWrites == 1

(***************************************************************************)
(* Register addresses (src/cmd/main.go 43-74).                             *)
(***************************************************************************)
regRHR == 0
regTHR == 0
regIER == 1
regFCR == 2
regIIR == 2
regLCR == 3
regMCR == 4
regLSR == 5
regSPR == 7
regRXLVL == 9
regDLL == 0
regDLH == 1

DefaultSize == 8
Stop1 == 1
Stop1Half == 15
Stop2 == 2
ParityNone == 78
ParityOdd == 79
ParityEven == 69
ParityMark == 77
ParitySpace == 83
testValue == 222
RxDFifo == 0
TxDFifo == 1
BothFifo == 2

\* the LCR value that selects the enhanced register set (line 68)
EnhancedLCR == 191

\* error values: a kind and, for the collaborator's errors, the transaction
nil == <<"nil", 0>>
ErrorScratchpad == <<"Scratchpad Register value mismatched", 0>>
ErrUnsupportedDataBits == <<"unsupported databits", 0>>
ErrTimeout == <<"timeout reached", 0>>
\* the error of the collaborator's k-th transaction of a call
BusError(k) == <<"BusError", k>>

(***************************************************************************)
(* Byte arithmetic.                                                        *)
(***************************************************************************)
Bit(v, k) == (v \div (2 ^ k)) % 2
BitOr(a, b) ==
    LET Or1(k) == IF Bit(a, k) = 1 \/ Bit(b, k) = 1 THEN 2 ^ k ELSE 0
    IN  Or1(0) + Or1(1) + Or1(2) + Or1(3) + Or1(4) + Or1(5) + Or1(6) + Or1(7)
BitAnd(a, b) ==
    LET And1(k) == IF Bit(a, k) = 1 /\ Bit(b, k) = 1 THEN 2 ^ k ELSE 0
    IN  And1(0) + And1(1) + And1(2) + And1(3) + And1(4) + And1(5) + And1(6) + And1(7)
BitAndNot(a, b) ==
    LET An1(k) == IF Bit(a, k) = 1 /\ Bit(b, k) = 0 THEN 2 ^ k ELSE 0
    IN  An1(0) + An1(1) + An1(2) + An1(3) + An1(4) + An1(5) + An1(6) + An1(7)
\* byte(x << k)
Shl8(x, k) == (x * (2 ^ k)) % 256

(***************************************************************************)
(* Inputs: the configurations handed to Open, the bytes and the status     *)
(* values the environment supplies.                                        *)
(***************************************************************************)
Config(baud, timeout, size, parity, stopBits) ==
    [Address |-> 72, Bus |-> 0, Baud |-> baud, XtalFreq |-> 14745600,
     Timeout |-> timeout, Size |-> size, Parity |-> parity, StopBits |-> stopBits]
Configs ==
    { Config(9600, 0, 0, 0, 0),
      [Config(300, 1, 8, ParitySpace, Stop2) EXCEPT !.Bus = 2],
      Config(9600, 0, 9, 0, 0) }
NoConf == [Address |-> 0, Bus |-> 0, Baud |-> 0, XtalFreq |-> 0,
           Timeout |-> 0, Size |-> 0, Parity |-> 0, StopBits |-> 0]
\* bytes carried by Write buffers and delivered by the receive holding register
ByteValues == {65, 66}
\* values the Line Status Register reads: bit 0 data ready, bit 5 THR empty
LSRValues == {1, 32}
\* what a device that is not the chip answers to every read
NotChipValue == 255

(***************************************************************************)
(* State.                                                                  *)
(***************************************************************************)
VARIABLES
    faithful,     \* the device on the bus behaves according to the register map
    chip,         \* the chip's registers
    handle,       \* the bus handle: "none", "open", "closed"
    dev,          \* the SC16IS7X0 object (lines 76-80), or NoDev
    conf,         \* the Config of the Open in progress or just returned
    call,         \* the API call in progress or just returned
    pc,           \* the position in that call
    local,        \* the local variables of the call
    p,            \* the buffer handed to Read or Write; the arguments of a method
    log,          \* the collaborator's transactions of the call, in order
    res,          \* what the call returned
    now,          \* the clock, as last read, counted from the call's entry
    timeoutTime,  \* the deadline of the poll loop
    polls         \* polls of the loop that found its readiness bit clear

vars == <<faithful, chip, handle, dev, conf, call, pc, local, p, log, res, now,
          timeoutTime, polls>>

NoDev == [xtalFreq |-> 0, timeout |-> 0, live |-> FALSE]
NoLocal == [err |-> nil, flags |-> 0, lower |-> 0, higher |-> 0, flen |-> 0,
            rlen |-> 0, i |-> 0, written |-> 0]
NoRes == [n |-> 0, err |-> nil, dev |-> FALSE, byte |-> 0]

(***************************************************************************)
(* The chip.  Which register an address reaches depends on LCR: the        *)
(* special register set needs LCR[7] = 1 and LCR # 0xBF, the enhanced      *)
(* register set needs LCR = 0xBF (lines 64 and 68).                        *)
(***************************************************************************)
Stored == {"SPR", "LCR", "MCR", "DLL", "DLH", "IER", "EFR", "XON1", "XON2", "XOFF2"}

General(reg, write) ==
    CASE reg = 0 -> IF write THEN "THR" ELSE "RHR"
      [] reg = 1 -> "IER"
      [] reg = 2 -> IF write THEN "FCR" ELSE "IIR"
      [] reg = 4 -> "MCR"
      [] reg = 5 -> "LSR"
      [] reg = 7 -> "SPR"
      [] reg = 9 -> "RXLVL"
      [] OTHER -> "NONE"

Target(lcr, reg, write) ==
    IF reg = regLCR THEN "LCR"
    ELSE IF lcr = EnhancedLCR
    THEN CASE reg = 2 -> "EFR"
           [] reg = 4 -> "XON1"
           [] reg = 5 -> "XON2"
           [] reg = 7 -> "XOFF2"
           [] reg >= 8 -> General(reg, write)
           [] OTHER -> "NONE"
    ELSE IF Bit(lcr, 7) = 1 /\ reg = regDLL THEN "DLL"
    ELSE IF Bit(lcr, 7) = 1 /\ reg = regDLH THEN "DLH"
    ELSE General(reg, write)

\* the values a read of the wire address can return
ReadChoices(wire) ==
    LET t == Target(chip.LCR, wire \div 8, FALSE)
    IN  IF ~faithful THEN {NotChipValue}
        ELSE IF t \in Stored THEN {chip[t]}
        ELSE IF t = "IIR" THEN {IF chip.FCR = 1 THEN 193 ELSE 1}
        ELSE IF t = "LSR" THEN LSRValues
        ELSE IF t = "RXLVL" THEN 0 .. MaxLevel
        ELSE IF t = "RHR" THEN ByteValues
        ELSE {0}

\* the chip after a write of v to the wire address
AfterWrite(wire, v) ==
    LET t == Target(chip.LCR, wire \div 8, TRUE)
    IN  IF ~faithful THEN chip
        ELSE IF t \in Stored THEN [chip EXCEPT ![t] = v]
        ELSE IF t = "FCR" THEN [chip EXCEPT !.FCR = Bit(v, 0)]
        ELSE chip

\* the chip before the first Open
ResetChip == [SPR |-> 255, LCR |-> 29, MCR |-> 0, DLL |-> 1, DLH |-> 0, IER |-> 0,
              EFR |-> 0, XON1 |-> 0, XON2 |-> 0, XOFF2 |-> 0, FCR |-> 0]

(***************************************************************************)
(* Register primitives (lines 128-157).  One collaborator transaction is   *)
(* one entry of the log: the function that issued it, the operation, the   *)
(* address on the wire, the value, the collaborator's error and the        *)
(* register the chip resolved the address to.                              *)
(***************************************************************************)
wireAddr(reg) == Shl8(reg, 3)

ErrOf(ok) == IF ok THEN nil ELSE BusError(Len(log) + 1)

Txn(fn, op, wire, v, ok) ==
    [fn |-> fn, op |-> op, reg |-> wire, val |-> v, err |-> ErrOf(ok),
     tgt |-> IF op \in {"R", "W"} THEN Target(chip.LCR, wire \div 8, op = "W") ELSE "NONE"]

\* the first transaction of a call: the log starts over
First(fn, op, wire, v, ok) ==
    [Txn(fn, op, wire, v, TRUE) EXCEPT !.err = IF ok THEN nil ELSE BusError(1)]

\* readReg: the log grows by the read, the chip is left alone
readReg(fn, reg, v, ok) ==
    /\ log' = Append(log, Txn(fn, "R", wireAddr(reg), IF ok THEN v ELSE 0, ok))
    /\ chip' = chip

\* writeReg: the log grows by the write, and the chip takes it unless it failed
writeReg(fn, reg, v, ok) ==
    /\ log' = Append(log, Txn(fn, "W", wireAddr(reg), v, ok))
    /\ chip' = IF ok THEN AfterWrite(wireAddr(reg), v) ELSE chip

\* a variant of updateFlags: the other bits of the register are not kept
updateFlags_BitOnly(flags, flag, value) == IF value THEN Shl8(1, flag) ELSE 0
\* updateRegBit's new flags (lines 142-146)
updateFlags(flags, flag, value) ==
    IF value THEN BitOr(flags, Shl8(1, flag)) ELSE BitAndNot(flags, Shl8(1, flag))

\* peekRegBit's result (line 156)
peekBit(current, flag) == BitAnd(current, Shl8(1, flag)) # 0

(***************************************************************************)
(* Pure parts of the driver.                                               *)
(***************************************************************************)
\* a variant of DefStopBits: the stop bits are taken as given
DefStopBits_AsGiven(c) == c.StopBits

\* Open's defaults for zero-valued fields (lines 376-391)
DefSize(c) == IF c.Size = 0 THEN DefaultSize ELSE c.Size
DefParity(c) == IF c.Parity = 0 THEN ParityNone ELSE c.Parity
DefStopBits(c) == IF c.StopBits = 0 THEN Stop1 ELSE c.StopBits
DefBus(c) == IF c.Bus = 0 THEN 1 ELSE c.Bus
DefTimeout(c) == IF c.Timeout = 0 THEN 1 * TicksPerSecond ELSE c.Timeout

\* a variant of Prescaler: the clock divider bit is not taken into account
Prescaler_Ignored(clkDiv) == 1
\* setBaudRate's prescaler (lines 165-168)
Prescaler(clkDiv) == IF clkDiv THEN 4 ELSE 1
\* uint32(baud * 16) is (baud mod 2^28) * 16; it is 0 when baud mod 2^28 is 0
DenominatorIsZero(baud) == baud % (2 ^ 28) = 0
\* setBaudRate's divisor (line 170), in uint32 arithmetic; the caller excludes a
\* zero denominator.  A denominator of 2^31 or more exceeds every xtalFreq below
\* 2^31, the values the model's integers hold, and the quotient is 0.
Divisor(xtalFreq, prescaler, baud) ==
    LET b == baud % (2 ^ 28)
    IN  IF b >= 2 ^ 27 THEN 0 ELSE (xtalFreq \div prescaler) \div (b * 16)
\* lines 172-173
lowerDivisor(divisor) == divisor % 256
higherDivisor(divisor) == (divisor \div 256) % 256

\* a variant of lcrAttributes: only two stop bits set bit 2
lcrAttributes_StopTwoOnly(dataBits, stopBits, parity) ==
    LET l0 == dataBits - 5
        l1 == IF stopBits = Stop2 THEN BitOr(l0, Shl8(1, 2)) ELSE l0
    IN  CASE parity = ParityNone -> l1
          [] parity = ParityOdd -> BitOr(l1, Shl8(1, 3))
          [] parity = ParityEven -> BitOr(l1, Shl8(3, 3))
          [] parity = ParityMark -> BitOr(l1, Shl8(5, 3))
          [] parity = ParitySpace -> BitOr(l1, Shl8(7, 3))
          [] OTHER -> l1

\* setUARTAttributes' Line Control Register byte (lines 221-249)
ValidDataBits(dataBits) == dataBits \in {5, 6, 7, 8}
lcrAttributes(dataBits, stopBits, parity) ==
    LET l0 == dataBits - 5
        l1 == IF stopBits # Stop1 THEN BitOr(l0, Shl8(1, 2)) ELSE l0
    IN  CASE parity = ParityNone -> l1
          [] parity = ParityOdd -> BitOr(l1, Shl8(1, 3))
          [] parity = ParityEven -> BitOr(l1, Shl8(3, 3))
          [] parity = ParityMark -> BitOr(l1, Shl8(5, 3))
          [] parity = ParitySpace -> BitOr(l1, Shl8(7, 3))
          [] OTHER -> l1

\* a variant of fcrClear: the FIFO enable bit is not carried over
fcrClear_EnableDropped(iirFlags, clearTarget) ==
    CASE clearTarget = RxDFifo -> 2
      [] clearTarget = TxDFifo -> 4
      [] clearTarget = BothFifo -> 6
      [] OTHER -> 0

\* ClearFifo's FIFO Control Register byte (lines 342-355)
fcrClear(iirFlags, clearTarget) ==
    LET f0 == IF BitAnd(iirFlags, 192) # 0 THEN 1 ELSE 0
    IN  CASE clearTarget = RxDFifo -> BitOr(f0, 2)
          [] clearTarget = TxDFifo -> BitOr(f0, 4)
          [] clearTarget = BothFifo -> BitOr(f0, 6)
          [] OTHER -> f0

\* a variant of TimedOut: the deadline itself counts as passed
TimedOut_AtDeadline(deadline, t) == deadline <= t
\* timeoutTime.Before(time.Now()) (lines 267 and 302)
TimedOut(deadline, t) == deadline < t

\* a variant of readLen: the FIFO level alone decides
readLen_LevelOnly(blen, flen) == flen
\* Read's rlen (lines 313-316)
readLen(blen, flen) == IF blen < flen THEN blen ELSE flen

(***************************************************************************)
(* Open (lines 375-426).                                                   *)
(***************************************************************************)
\* a variant of OpenSteps: the line attributes before the FIFO enable
OpenSteps_AttributesFirst ==
    <<"testChip", "setBaudRate", "setUARTAttributes", "enableFifo", "ClearFifo">>
\* the chip programming steps in Open's order, and the position each starts at
OpenSteps == <<"testChip", "setBaudRate", "enableFifo", "setUARTAttributes", "ClearFifo">>
StepEntry(step) ==
    CASE step = "testChip" -> "test_w"
      [] step = "setBaudRate" -> "baud_peek"
      [] step = "enableFifo" -> "fifo_w"
      [] step = "setUARTAttributes" -> "attr_w"
      [] step = "ClearFifo" -> "clear_r"
StepIndex(step) == CHOOSE k \in 1 .. Len(OpenSteps) : OpenSteps[k] = step

\* a step returned err: Open closes the handle and returns the error
StepFailed(err) ==
    /\ pc' = "open_close"
    /\ local' = [local EXCEPT !.err = err]
    /\ UNCHANGED <<res, dev, handle>>

\* a step returned nil: Open goes on to the next step, or returns the device
StepDone(step) ==
    IF StepIndex(step) < Len(OpenSteps)
    THEN /\ pc' = StepEntry(OpenSteps[StepIndex(step) + 1])
         /\ UNCHANGED <<local, res, dev, handle>>
    ELSE /\ pc' = "ret"
         /\ res' = [NoRes EXCEPT !.dev = TRUE]
         /\ dev' = [dev EXCEPT !.live = TRUE]
         /\ UNCHANGED <<local, handle>>

Idle == pc \in {"idle", "ret"}

\* lines 375-398: defaults, i2c.NewI2C, the device object
OpenCall(c, ok) ==
    /\ Idle
    /\ ~dev.live
    /\ call' = "Open"
    /\ conf' = c
    /\ log' = <<First("Open", "NewI2C", c.Address, DefBus(c), ok)>>
    /\ local' = NoLocal
    /\ p' = <<>>
    /\ now' = 0
    /\ timeoutTime' = 0
    /\ polls' = 0
    /\ IF ok
       THEN /\ handle' = "open"
            /\ dev' = [xtalFreq |-> c.XtalFreq, timeout |-> DefTimeout(c), live |-> FALSE]
            /\ res' = NoRes
            /\ pc' = StepEntry(OpenSteps[1])
       ELSE /\ handle' = "none"
            /\ dev' = NoDev
            /\ res' = [NoRes EXCEPT !.err = BusError(1)]
            /\ pc' = "ret"
    /\ UNCHANGED <<faithful, chip>>

OpenFrame == UNCHANGED <<faithful, conf, call, p, now, timeoutTime, polls>>

\* testChip, line 200
TestChipWrite(ok) ==
    /\ pc = "test_w"
    /\ writeReg("testChip", regSPR, testValue, ok)
    /\ IF ok
       THEN pc' = "test_r" /\ UNCHANGED <<local, res, dev, handle>>
       ELSE StepFailed(ErrOf(ok))
    /\ OpenFrame

\* testChip, lines 204-214
TestChipRead(rv, ok) ==
    /\ pc = "test_r"
    /\ readReg("testChip", regSPR, rv, ok)
    /\ IF ~ok THEN StepFailed(ErrOf(ok))
       ELSE IF rv # testValue THEN StepFailed(ErrorScratchpad)
       ELSE StepDone("testChip")
    /\ OpenFrame

\* setBaudRate, lines 160-173: peekRegBit(regMCR, 7) and the divisor
BaudPeek(v, ok) ==
    /\ pc = "baud_peek"
    /\ readReg("setBaudRate", regMCR, v, ok)
    /\ IF ~ok THEN StepFailed(ErrOf(ok))
       ELSE IF DenominatorIsZero(conf.Baud)
       THEN \* integer divide by zero: the goroutine panics, Open never returns
            pc' = "panic" /\ UNCHANGED <<local, res, dev, handle>>
       ELSE LET divisor == Divisor(dev.xtalFreq, Prescaler(peekBit(v, 7)), conf.Baud)
            IN  /\ pc' = "baud_set_r"
                /\ local' = [local EXCEPT !.lower = lowerDivisor(divisor),
                                          !.higher = higherDivisor(divisor)]
                /\ UNCHANGED <<res, dev, handle>>
    /\ OpenFrame

\* updateRegBit's read (line 138), at position at; on success go to next
UpdateRead(fn, at, next, reg, v, ok) ==
    /\ pc = at
    /\ readReg(fn, reg, v, ok)
    /\ IF ok
       THEN /\ pc' = next
            /\ local' = [local EXCEPT !.flags = v]
            /\ UNCHANGED <<res, dev, handle>>
       ELSE StepFailed(ErrOf(ok))
    /\ OpenFrame

\* a register write of setBaudRate at position at; on success go to next
BaudWrite(at, next, reg, v, ok) ==
    /\ pc = at
    /\ writeReg("setBaudRate", reg, v, ok)
    /\ IF ok
       THEN pc' = next /\ UNCHANGED <<local, res, dev, handle>>
       ELSE StepFailed(ErrOf(ok))
    /\ OpenFrame

\* setBaudRate, line 175: updateRegBit(regLCR, 7, true)
BaudSetRead(v, ok) == UpdateRead("setBaudRate", "baud_set_r", "baud_set_w", regLCR, v, ok)
BaudSetWrite(ok) ==
    BaudWrite("baud_set_w", "baud_dll", regLCR, updateFlags(local.flags, 7, TRUE), ok)
\* a variant of BaudDLL: the high byte of the divisor goes out first
BaudDLL_HighFirst(ok) == BaudWrite("baud_dll", "baud_dlh", regDLH, local.higher, ok)
\* lines 179 and 183
BaudDLL(ok) == BaudWrite("baud_dll", "baud_dlh", regDLL, local.lower, ok)
BaudDLH(ok) == BaudWrite("baud_dlh", "baud_clr_r", regDLH, local.higher, ok)
\* line 187: updateRegBit(regLCR, 7, false)
BaudClrRead(v, ok) == UpdateRead("setBaudRate", "baud_clr_r", "baud_clr_w", regLCR, v, ok)
BaudClrWrite(ok) ==
    /\ pc = "baud_clr_w"
    /\ writeReg("setBaudRate", regLCR, updateFlags(local.flags, 7, FALSE), ok)
    /\ IF ok THEN StepDone("setBaudRate") ELSE StepFailed(ErrOf(ok))
    /\ OpenFrame

\* enableFifo(true), lines 360-365
EnableFifo(ok) ==
    /\ pc = "fifo_w"
    /\ writeReg("enableFifo", regFCR, 1, ok)
    /\ IF ok THEN StepDone("enableFifo") ELSE StepFailed(ErrOf(ok))
    /\ OpenFrame

\* setUARTAttributes, lines 219-253
SetUARTAttributes(ok) ==
    /\ pc = "attr_w"
    /\ IF ~ValidDataBits(DefSize(conf))
       THEN /\ ok
            /\ UNCHANGED <<log, chip>>
            /\ StepFailed(ErrUnsupportedDataBits)
       ELSE /\ writeReg("setUARTAttributes", regLCR,
                        lcrAttributes(DefSize(conf), DefStopBits(conf), DefParity(conf)), ok)
            /\ IF ok THEN StepDone("setUARTAttributes") ELSE StepFailed(ErrOf(ok))
    /\ OpenFrame

\* ClearFifo(BothFifo), lines 336-358
ClearFifoRead(v, ok) == UpdateRead("ClearFifo", "clear_r", "clear_w", regIIR, v, ok)
ClearFifoWrite(ok) ==
    /\ pc = "clear_w"
    /\ writeReg("ClearFifo", regFCR, fcrClear(local.flags, BothFifo), ok)
    /\ IF ok THEN StepDone("ClearFifo") ELSE StepFailed(ErrOf(ok))
    /\ OpenFrame

\* a variant of OpenClose: the error is returned with the handle left open
OpenClose_NoClose(ok) ==
    /\ pc = "open_close"
    /\ ok
    /\ dev' = NoDev
    /\ res' = [NoRes EXCEPT !.err = local.err]
    /\ pc' = "ret"
    /\ UNCHANGED <<faithful, chip, handle, conf, call, local, p, log, now, timeoutTime, polls>>

\* Open's failure paths: dev.Close() with its error dropped, return nil, err
OpenClose(ok) ==
    /\ pc = "open_close"
    /\ log' = Append(log, Txn("Open", "Close", 0, 0, ok))
    /\ handle' = "closed"
    /\ dev' = NoDev
    /\ res' = [NoRes EXCEPT !.err = local.err]
    /\ pc' = "ret"
    /\ UNCHANGED <<faithful, chip, conf, call, local, p, now, timeoutTime, polls>>

(***************************************************************************)
(* Byte I/O and Close (lines 255-326, 367-373, 428-430).                   *)
(***************************************************************************)
\* entry of an API call on the opened device: the clock is counted from here
Enter(name, buf) ==
    /\ Idle
    /\ dev.live
    /\ call' = name
    /\ p' = buf
    /\ conf' = NoConf
    /\ local' = NoLocal
    /\ now' = 0
    /\ polls' = 0
    /\ UNCHANGED <<faithful, chip, handle, dev>>

\* a reading of the clock d ticks after the last one
Clock(d) == now' = now + d
\* a poll that finds the loop's bit clear and the deadline not passed goes round
\* again; of those that took no time the model follows at most MaxPolls
PollAgain(d) ==
    /\ d = 0 => polls < MaxPolls
    /\ polls' = polls + 1

IOFrame == UNCHANGED <<faithful, handle, dev, conf, call>>

\* a variant of WriteByteReturn: Write's loop goes on after a failed WriteByte
WriteByteReturn_GoesOn(err) ==
    IF call = "WriteByte"
    THEN /\ res' = [NoRes EXCEPT !.err = err]
         /\ pc' = "ret"
         /\ UNCHANGED <<local, timeoutTime, polls>>
    ELSE /\ local' = [local EXCEPT !.written = local.written + 1]
         /\ IF local.written + 1 = Len(p)
            THEN /\ res' = [NoRes EXCEPT !.n = local.written + 1]
                 /\ pc' = "ret"
                 /\ UNCHANGED <<timeoutTime, polls>>
            ELSE /\ pc' = "wb_poll"
                 /\ timeoutTime' = now' + dev.timeout
                 /\ polls' = 0
                 /\ UNCHANGED res

\* a variant of WriteByteReturn: the WriteBytes of one Write share a deadline
WriteByteReturn_SharedDeadline(err) ==
    IF call = "WriteByte"
    THEN /\ res' = [NoRes EXCEPT !.err = err]
         /\ pc' = "ret"
         /\ UNCHANGED <<local, timeoutTime, polls>>
    ELSE IF err # nil
    THEN /\ res' = [NoRes EXCEPT !.n = -1, !.err = err]
         /\ pc' = "ret"
         /\ UNCHANGED <<local, timeoutTime, polls>>
    ELSE /\ local' = [local EXCEPT !.written = local.written + 1]
         /\ IF local.written + 1 = Len(p)
            THEN /\ res' = [NoRes EXCEPT !.n = local.written + 1]
                 /\ pc' = "ret"
                 /\ UNCHANGED <<timeoutTime, polls>>
            ELSE /\ pc' = "wb_poll"
                 /\ polls' = 0
                 /\ UNCHANGED <<res, timeoutTime>>

\* WriteByte returned err, to its caller or to Write's loop (lines 277-284);
\* the next WriteByte of the loop takes its deadline at its entry (line 258)
WriteByteReturn(err) ==
    IF call = "WriteByte"
    THEN /\ res' = [NoRes EXCEPT !.err = err]
         /\ pc' = "ret"
         /\ UNCHANGED <<local, timeoutTime, polls>>
    ELSE IF err # nil
    THEN /\ res' = [NoRes EXCEPT !.n = -1, !.err = err]
         /\ pc' = "ret"
         /\ UNCHANGED <<local, timeoutTime, polls>>
    ELSE /\ local' = [local EXCEPT !.written = local.written + 1]
         /\ IF local.written + 1 = Len(p)
            THEN /\ res' = [NoRes EXCEPT !.n = local.written + 1]
                 /\ pc' = "ret"
                 /\ UNCHANGED <<timeoutTime, polls>>
            ELSE /\ pc' = "wb_poll"
                 /\ timeoutTime' = now' + dev.timeout
                 /\ polls' = 0
                 /\ UNCHANGED res

\* WriteByte(c), line 258
WriteByteCall(c) ==
    /\ Enter("WriteByte", <<c>>)
    /\ log' = <<>>
    /\ res' = NoRes
    /\ timeoutTime' = 0 + dev.timeout
    /\ pc' = "wb_poll"

\* Write(p), lines 275-284 with the first WriteByte's entry
WriteCall(buf) ==
    /\ Enter("Write", buf)
    /\ log' = <<>>
    /\ IF Len(buf) = 0
       THEN /\ res' = NoRes
            /\ timeoutTime' = 0
            /\ pc' = "ret"
       ELSE /\ res' = NoRes
            /\ timeoutTime' = 0 + dev.timeout
            /\ pc' = "wb_poll"

\* WriteByte's loop, lines 259-270
WriteBytePoll(v, ok, d) ==
    /\ pc = "wb_poll"
    /\ readReg("WriteByte", regLSR, v, ok)
    /\ Clock(d)
    /\ IF ~ok
       THEN WriteByteReturn(ErrOf(ok))
       ELSE IF peekBit(v, 5)
       THEN pc' = "wb_thr" /\ UNCHANGED <<local, res, timeoutTime, polls>>
       ELSE IF TimedOut(timeoutTime, now')
       THEN WriteByteReturn(ErrTimeout)
       ELSE pc' = "wb_poll" /\ PollAgain(d) /\ UNCHANGED <<local, res, timeoutTime>>
    /\ UNCHANGED p
    /\ IOFrame

\* a variant of currentByte: the loop keeps writing the first byte
currentByte_First == p[1]
\* the byte WriteByte was called with: val of Write's range loop (line 277)
currentByte == p[local.written + 1]

\* WriteByte, line 272
WriteByteTHR(ok, d) ==
    /\ pc = "wb_thr"
    /\ writeReg("WriteByte", regTHR, currentByte, ok)
    /\ Clock(d)
    /\ WriteByteReturn(ErrOf(ok))
    /\ UNCHANGED p
    /\ IOFrame

\* Read returned (n, err)
ReadReturn(n, err) ==
    /\ res' = [NoRes EXCEPT !.n = n, !.err = err]
    /\ pc' = "ret"

\* Read(p), line 292
ReadCall(blen) ==
    /\ Enter("Read", [k \in 1 .. blen |-> 0])
    /\ log' = <<>>
    /\ res' = NoRes
    /\ timeoutTime' = 0 + dev.timeout
    /\ pc' = "rd_poll"

\* Read's loop, lines 294-305
ReadPoll(v, ok, d) ==
    /\ pc = "rd_poll"
    /\ readReg("Read", regLSR, v, ok)
    /\ Clock(d)
    /\ IF ~ok
       THEN ReadReturn(-1, ErrOf(ok)) /\ UNCHANGED polls
       ELSE IF peekBit(v, 0)
       THEN pc' = "rd_lvl" /\ UNCHANGED <<res, polls>>
       ELSE IF TimedOut(timeoutTime, now')
       THEN ReadReturn(-2, ErrTimeout) /\ UNCHANGED polls
       ELSE pc' = "rd_poll" /\ PollAgain(d) /\ UNCHANGED res
    /\ UNCHANGED <<local, p, timeoutTime>>
    /\ IOFrame

\* fifoDataLength and Read's rlen, lines 307-316 and 367-373
ReadLevel(v, ok) ==
    /\ pc = "rd_lvl"
    /\ readReg("fifoDataLength", regRXLVL, v, ok)
    /\ IF ~ok
       THEN ReadReturn(-1, ErrOf(ok)) /\ UNCHANGED local
       ELSE /\ local' = [local EXCEPT !.flen = v, !.rlen = readLen(Len(p), v), !.i = 0]
            /\ IF readLen(Len(p), v) = 0
               THEN ReadReturn(0, nil)
               ELSE pc' = "rd_byte" /\ UNCHANGED res
    /\ UNCHANGED <<p, now, timeoutTime, polls>>
    /\ IOFrame

\* Read's copy loop, lines 318-325, with ReadByte, lines 287-289
ReadCopy(v, ok) ==
    /\ pc = "rd_byte"
    /\ readReg("ReadByte", regRHR, v, ok)
    /\ p' = [p EXCEPT ![local.i + 1] = IF ok THEN v ELSE 0]
    /\ IF ~ok
       THEN ReadReturn(local.i, ErrOf(ok)) /\ UNCHANGED local
       ELSE /\ local' = [local EXCEPT !.i = local.i + 1]
            /\ IF local.i + 1 < local.rlen
               THEN pc' = "rd_byte" /\ UNCHANGED res
               ELSE ReadReturn(local.rlen, nil)
    /\ UNCHANGED <<now, timeoutTime, polls>>
    /\ IOFrame

\* ReadByte(), lines 287-289
ReadByteCall(v, ok) ==
    /\ Enter("ReadByte", <<>>)
    /\ LET t == First("ReadByte", "R", wireAddr(regRHR), IF ok THEN v ELSE 0, ok)
       IN  /\ log' = <<t>>
           /\ res' = [NoRes EXCEPT !.byte = t.val, !.err = t.err]
    /\ pc' = "ret"
    /\ UNCHANGED timeoutTime

\* Close(), lines 428-430
CloseCall(ok) ==
    /\ Idle
    /\ dev.live
    /\ call' = "Close"
    /\ log' = <<First("Close", "Close", 0, 0, ok)>>
    /\ res' = [NoRes EXCEPT !.err = First("Close", "Close", 0, 0, ok).err]
    /\ handle' = "closed"
    /\ dev' = NoDev
    /\ pc' = "ret"
    /\ conf' = NoConf
    /\ local' = NoLocal
    /\ p' = <<>>
    /\ now' = 0
    /\ polls' = 0
    /\ UNCHANGED <<faithful, chip, timeoutTime>>

(***************************************************************************)
(* The specification.                                                      *)
(***************************************************************************)
\* the buffers handed to Write: 'A', 'B', ... up to each length
Buffers == {[k \in 1 .. n |-> 64 + k] : n \in 0 .. MaxBuf}
Steps == 0 .. MaxStep

Init ==
    /\ faithful \in BOOLEAN
    /\ chip \in {[ResetChip EXCEPT !.MCR = m] : m \in {0, 128}}
    /\ handle = "none"
    /\ dev = NoDev
    /\ conf = NoConf
    /\ call = "none"
    /\ pc = "idle"
    /\ local = NoLocal
    /\ p = <<>>
    /\ log = <<>>
    /\ res = NoRes
    /\ now = 0
    /\ timeoutTime = 0
    /\ polls = 0

Next ==
    \/ \E c \in Configs, ok \in BOOLEAN : OpenCall(c, ok)
    \/ \E ok \in BOOLEAN : TestChipWrite(ok)
    \/ \E rv \in ReadChoices(wireAddr(regSPR)), ok \in BOOLEAN : TestChipRead(rv, ok)
    \/ \E v \in ReadChoices(wireAddr(regMCR)), ok \in BOOLEAN : BaudPeek(v, ok)
    \/ \E v \in ReadChoices(wireAddr(regLCR)), ok \in BOOLEAN : BaudSetRead(v, ok)
    \/ \E ok \in BOOLEAN : BaudSetWrite(ok)
    \/ \E ok \in BOOLEAN : BaudDLL(ok)
    \/ \E ok \in BOOLEAN : BaudDLH(ok)
    \/ \E v \in ReadChoices(wireAddr(regLCR)), ok \in BOOLEAN : BaudClrRead(v, ok)
    \/ \E ok \in BOOLEAN : BaudClrWrite(ok)
    \/ \E ok \in BOOLEAN : EnableFifo(ok)
    \/ \E ok \in BOOLEAN : SetUARTAttributes(ok)
    \/ \E v \in ReadChoices(wireAddr(regIIR)), ok \in BOOLEAN : ClearFifoRead(v, ok)
    \/ \E ok \in BOOLEAN : ClearFifoWrite(ok)
    \/ \E ok \in BOOLEAN : OpenClose(ok)
    \/ \E c \in ByteValues : WriteByteCall(c)
    \/ \E buf \in Buffers : WriteCall(buf)
    \/ \E v \in ReadChoices(wireAddr(regLSR)), ok \in BOOLEAN, d \in Steps : WriteBytePoll(v, ok, d)
    \/ \E ok \in BOOLEAN, d \in Steps : WriteByteTHR(ok, d)
    \/ \E blen \in 0 .. MaxBuf : ReadCall(blen)
    \/ \E v \in ReadChoices(wireAddr(regLSR)), ok \in BOOLEAN, d \in Steps : ReadPoll(v, ok, d)
    \/ \E v \in ReadChoices(wireAddr(regRXLVL)), ok \in BOOLEAN : ReadLevel(v, ok)
    \/ \E v \in ReadChoices(wireAddr(regRHR)), ok \in BOOLEAN : ReadCopy(v, ok)
    \/ \E v \in ReadChoices(wireAddr(regRHR)), ok \in BOOLEAN : ReadByteCall(v, ok)
    \/ \E ok \in BOOLEAN : CloseCall(ok)

Spec == Init /\ [][Next]_vars

\* a step of a WriteByte, Write or Read in progress: one bus transaction and a
\* reading of the clock
IOStep ==
    \/ \E v \in ReadChoices(wireAddr(regLSR)), ok \in BOOLEAN, d \in Steps : WriteBytePoll(v, ok, d)
    \/ \E ok \in BOOLEAN, d \in Steps : WriteByteTHR(ok, d)
    \/ \E v \in ReadChoices(wireAddr(regLSR)), ok \in BOOLEAN, d \in Steps : ReadPoll(v, ok, d)
    \/ \E v \in ReadChoices(wireAddr(regRXLVL)), ok \in BOOLEAN : ReadLevel(v, ok)
    \/ \E v \in ReadChoices(wireAddr(regRHR)), ok \in BOOLEAN : ReadCopy(v, ok)

\* WriteByte, Write and Read on the device as a successful Open returns it
IOInit ==
    /\ faithful = TRUE
    /\ chip = [ResetChip EXCEPT !.SPR = testValue, !.LCR = 3, !.DLL = 96, !.FCR = 1]
    /\ handle = "open"
    /\ dev \in {[xtalFreq |-> c.XtalFreq, timeout |-> DefTimeout(c), live |-> TRUE] : c \in Configs}
    /\ conf = NoConf
    /\ call = "none"
    /\ pc = "idle"
    /\ local = NoLocal
    /\ p = <<>>
    /\ log = <<>>
    /\ res = NoRes
    /\ now = 0
    /\ timeoutTime = 0
    /\ polls = 0

IONext ==
    \/ \E c \in ByteValues : WriteByteCall(c)
    \/ \E buf \in Buffers : WriteCall(buf)
    \/ \E blen \in 0 .. MaxBuf : ReadCall(blen)
    \/ IOStep

\* every bus transaction returns and the clock keeps advancing (of the polls of
\* a loop at most MaxPolls in a row find the clock where the last one left it)
FairSpec == IOInit /\ [][IONext]_vars /\ WF_vars(IOStep)

(***************************************************************************)
(* Vocabulary of the properties.                                           *)
(***************************************************************************)
Returned(name) == call = name /\ pc = "ret"
Indices(Test(_)) == {k \in 1 .. Len(log) : Test(log[k])}
IsRegOp(t) == t.op \in {"R", "W"}
IsClose(t) == t.op = "Close"
\* Open acquired the bus handle
Acquired == Len(log) >= 1 /\ log[1].op = "NewI2C" /\ log[1].err = nil
\* the order of the chip programming as the specification gives it, and the
\* number of register transactions of each step
ProgrammingOrder ==
    <<"testChip", "setBaudRate", "enableFifo", "setUARTAttributes", "ClearFifo">>
Transactions(step) ==
    CASE step = "testChip" -> 2
      [] step = "setBaudRate" -> 7
      [] step = "enableFifo" -> 1
      [] step = "setUARTAttributes" -> 1
      [] step = "ClearFifo" -> 2
Rank(step) == CHOOSE r \in 1 .. Len(ProgrammingOrder) : ProgrammingOrder[r] = step
\* the step's transactions among the first k - 1 of the log
Before(k, step) == {j \in 1 .. k - 1 : log[j].fn = step}

(***************************************************************************)
(* C1.  Open programs the chip in the order self-test (scratchpad write,   *)
(* then read-back), baud, FIFO enable, line attributes, clear both FIFOs:  *)
(* the bus handle is acquired first, and a register transaction of a step  *)
(* is issued only when every transaction before it succeeded and every     *)
(* earlier step is complete (the self-test having read the sentinel back). *)
(***************************************************************************)
C1_OpenOrder ==
    call = "Open" =>
        /\ Len(log) >= 1 => log[1].op = "NewI2C"
        /\ \A k \in 2 .. Len(log) :
              IsRegOp(log[k]) =>
                 /\ Acquired
                 /\ log[k].fn \in {ProgrammingOrder[r] : r \in 1 .. Len(ProgrammingOrder)}
                 /\ \A j \in 1 .. k - 1 : log[j].err = nil
                 /\ \A r \in 1 .. Len(ProgrammingOrder) :
                       LET step == ProgrammingOrder[r]
                       IN  /\ r < Rank(log[k].fn) =>
                                Cardinality(Before(k, step)) = Transactions(step)
                           /\ r > Rank(log[k].fn) => Before(k, step) = {}
                 /\ Rank(log[k].fn) > 1 =>
                       /\ log[2].op = "W" /\ log[2].reg = 56 /\ log[2].val = testValue
                       /\ log[3].op = "R" /\ log[3].reg = 56 /\ log[3].val = testValue

C1_Witness ==
    /\ Returned("Open")
    /\ res.dev
    /\ Len(log) = 14
    /\ log[14].fn = "ClearFifo"

(***************************************************************************)
(* C2.  When a step of Open fails (a bus error, a scratchpad mismatch, or  *)
(* the data bits refused), Open closes the bus handle exactly once,        *)
(* returns that step's error and no device, and the failing transaction is *)
(* the last register transaction it issued; after a scratchpad mismatch no *)
(* baud, FIFO or line attribute transaction exists.                        *)
(***************************************************************************)
C2_OpenFailure ==
    (Returned("Open") /\ Acquired /\ res.err # nil) =>
        LET n == Len(log)
            regs == Indices(IsRegOp)
        IN  /\ Cardinality(Indices(IsClose)) = 1
            /\ log[n].op = "Close"
            /\ ~res.dev
            /\ ~dev.live
            /\ handle = "closed"
            /\ regs = 2 .. n - 1
            /\ \A k \in 2 .. n - 2 : log[k].err = nil
            /\ \A k \in 2 .. n - 2 :
                  ~(log[k].fn = "testChip" /\ log[k].op = "R" /\ log[k].val # testValue)
            /\ \/ n > 2 /\ log[n - 1].err # nil /\ res.err = log[n - 1].err
               \/ /\ n = 4
                  /\ log[3].fn = "testChip" /\ log[3].op = "R"
                  /\ log[3].err = nil /\ log[3].val # testValue
                  /\ res.err = ErrorScratchpad
               \/ /\ res.err = ErrUnsupportedDataBits
                  /\ DefSize(conf) \notin {5, 6, 7, 8}
                  /\ \A k \in 2 .. n - 1 :
                        log[k].err = nil /\ log[k].fn \notin {"setUARTAttributes", "ClearFifo"}

C2_Witness ==
    /\ Returned("Open")
    /\ res.err = ErrorScratchpad
    /\ Len(log) = 4
    /\ handle = "closed"

(***************************************************************************)
(* C3.  Whenever Open returns successfully against a chip that behaves     *)
(* according to its register map, whatever the chip held before: the       *)
(* scratchpad holds 0xDE, the divisor latches hold the divisor computed    *)
(* from the crystal frequency and the baud, FIFO mode is enabled, LCR      *)
(* holds the byte of the defaulted data bits, stop bits and parity with    *)
(* bit 7 clear, and the clear of both FIFOs is the last transaction.       *)
(***************************************************************************)
ParityCode(parity) ==
    CASE parity = ParityNone -> 0
      [] parity = ParityOdd -> 1
      [] parity = ParityEven -> 3
      [] parity = ParityMark -> 5
      [] parity = ParitySpace -> 7
      [] OTHER -> 0
\* the Line Control Register byte of a configuration, by the bit layout
LineControl(c) ==
    ((IF c.Size = 0 THEN 8 ELSE c.Size) - 5)
    + (IF c.StopBits \in {0, Stop1} THEN 0 ELSE 4)
    + 8 * ParityCode(IF c.Parity = 0 THEN ParityNone ELSE c.Parity)
\* floor((crystalFreq / prescaler) / (baud * 16)), in unbounded arithmetic
ExactDivisor(xtalFreq, prescaler, baud) == (xtalFreq \div prescaler) \div (baud * 16)

C3_OpenReady ==
    (Returned("Open") /\ res.dev /\ faithful) =>
        LET divisor == ExactDivisor(conf.XtalFreq, IF Bit(log[4].val, 7) = 1 THEN 4 ELSE 1,
                                    conf.Baud)
            last == log[Len(log)]
        IN  /\ chip.SPR = 222
            /\ chip.DLL = divisor % 256
            /\ chip.DLH = (divisor \div 256) % 256
            /\ chip.FCR = 1
            /\ chip.LCR = LineControl(conf)
            /\ Bit(chip.LCR, 7) = 0
            /\ last.op = "W" /\ last.tgt = "FCR"
            /\ Bit(last.val, 1) = 1 /\ Bit(last.val, 2) = 1

(***************************************************************************)
(* C4.  An Open with a data bit count outside 5..8 (0 being defaulted to   *)
(* 8) that fails with UnsupportedDataBits has attempted no register write. *)
(***************************************************************************)
C4_NoWriteBeforeValidation ==
    (Returned("Open") /\ (IF conf.Size = 0 THEN 8 ELSE conf.Size) \notin {5, 6, 7, 8}
                      /\ res.err = ErrUnsupportedDataBits) =>
        \A k \in 1 .. Len(log) : log[k].op # "W"

(***************************************************************************)
(* C5.  Read, once a poll saw LSR bit 0 set, reads the receive FIFO level  *)
(* once and then issues exactly min(len(buffer), level) reads of the       *)
(* receive register, stores them in the buffer in order and returns that   *)
(* count with no error; a bus error on one of those reads returns the      *)
(* count of the bytes read before it together with the error.              *)
(***************************************************************************)
IsReadyPoll(t) == t.fn = "Read" /\ t.err = nil /\ Bit(t.val, 0) = 1
IsLevelRead(t) == t.fn = "fifoDataLength"
IsByteRead(t) == t.fn = "ReadByte"

C5_ReadCount ==
    (Returned("Read") /\ Indices(IsReadyPoll) # {}) =>
        LET k == CHOOSE j \in Indices(IsReadyPoll) : TRUE
            bytes == Indices(IsByteRead)
            got == Cardinality(bytes)
        IN  /\ Indices(IsReadyPoll) = {k}
            /\ Indices(IsLevelRead) = {k + 1}
            /\ log[k + 1].op = "R" /\ log[k + 1].reg = 72
            /\ log[k + 1].err = nil =>
                  LET level == log[k + 1].val
                      m == IF Len(p) < level THEN Len(p) ELSE level
                  IN  /\ bytes = k + 2 .. k + 1 + got
                      /\ \A j \in bytes : log[j].op = "R" /\ log[j].reg = 0
                      /\ \A j \in bytes : j < k + 1 + got => log[j].err = nil
                      /\ got <= m
                      /\ IF got > 0 /\ log[k + 1 + got].err # nil
                         THEN /\ res.n = got - 1
                              /\ res.err = log[k + 1 + got].err
                              /\ \A i \in 1 .. got - 1 : p[i] = log[k + 1 + i].val
                         ELSE /\ got = m
                              /\ res.n = m
                              /\ res.err = nil
                              /\ \A i \in 1 .. m : p[i] = log[k + 1 + i].val

C5_Witness ==
    /\ Returned("Read")
    /\ res.err = nil
    /\ res.n = 2
    /\ local.flen = 3
    /\ p = <<66, 65>>

(***************************************************************************)
(* C6.  As claimed: Write is all or nothing, either every byte of the      *)
(* buffer has been written to the transmit register and the call succeeds, *)
(* or the call fails and no byte of the buffer has been written.           *)
(* As amended: a failing Write has written a proper prefix of the buffer   *)
(* (the bytes before the failing one), which may be empty.                 *)
(***************************************************************************)
IsSentByte(t) == t.op = "W" /\ t.tgt = "THR" /\ t.err = nil
\* the bytes the transmit register took during the call, in order
Sent == LET s == SelectSeq(log, IsSentByte) IN [k \in 1 .. Len(s) |-> s[k].val]

C6_AllOrNothing ==
    Returned("Write") =>
        \/ res.err = nil /\ Sent = p
        \/ res.err # nil /\ Sent = <<>>

C6_AllOrPrefix ==
    Returned("Write") =>
        \/ res.err = nil /\ Sent = p
        \/ res.err # nil /\ \E k \in 0 .. Len(p) - 1 : Sent = SubSeq(p, 1, k)

C6_Witness ==
    /\ Returned("Write")
    /\ res.err # nil
    /\ p = <<65, 66>>
    /\ Sent = <<65>>

(***************************************************************************)
(* C7.  Read(p) and Write(p) keep io.Reader's and io.Writer's contract:    *)
(* the count returned is within 0..len(p) whatever the outcome, and Write  *)
(* returns an error whenever the count is below len(p).                    *)
(***************************************************************************)
C7_CountInRange ==
    (Returned("Read") \/ Returned("Write")) =>
        /\ 0 <= res.n
        /\ res.n <= Len(p)
        /\ (call = "Write" /\ res.n < Len(p)) => res.err # nil

(***************************************************************************)
(* C8.  A WriteByte or Read whose polls never see its readiness bit (LSR   *)
(* bit 5, LSR bit 0) and meet no bus error returns TimeoutError, and only  *)
(* once the clock has passed the deadline taken at the entry (entry time   *)
(* plus the configured timeout): never at or before it.  At the timeout    *)
(* the WriteByte has written nothing to the transmit register and the Read *)
(* has read neither the FIFO level nor the receive register.               *)
(***************************************************************************)
ReadinessBit == IF call = "Read" THEN 0 ELSE 5
IsIdlePoll(t) == t.op = "R" /\ t.reg = 40 /\ t.err = nil /\ Bit(t.val, ReadinessBit) = 0
IsWrite(t) == t.op = "W"
\* the transactions of the last WriteByte of the call: those after the last write
LastWriteByte ==
    LET w == Indices(IsWrite)
        from == IF w = {} THEN 1 ELSE 1 + CHOOSE k \in w : \A j \in w : j <= k
    IN  from .. Len(log)

C8_Timeout ==
    /\ pc \in {"wb_poll", "rd_poll"} => now <= timeoutTime
    /\ (call \in {"WriteByte", "Read"} /\ pc # "idle") => timeoutTime = 0 + dev.timeout
    /\ (pc = "ret" /\ res.err = ErrTimeout) =>
          /\ call \in {"WriteByte", "Write", "Read"}
          /\ now > timeoutTime
          /\ Len(log) >= 1
          /\ \A k \in LastWriteByte : IsIdlePoll(log[k])
          /\ call \in {"WriteByte", "Read"} => LastWriteByte = 1 .. Len(log)
    /\ (pc = "ret" /\ call \in {"WriteByte", "Read"} /\ \A k \in 1 .. Len(log) : IsIdlePoll(log[k]))
          => res.err = ErrTimeout

C8_Witness ==
    /\ Returned("Read")
    /\ res.err = ErrTimeout
    /\ dev.timeout = 1 * TicksPerSecond
    /\ now = timeoutTime + 1
    /\ Len(log) > 1

(***************************************************************************)
(* C9.  Every error of the bus collaborator during an operation (a         *)
(* register read, a register write, a close of the handle, the close on    *)
(* Open's failure paths included) is the error the operation returns, and  *)
(* no register transaction follows a failed one.                           *)
(***************************************************************************)
C9_EveryErrorReported ==
    pc = "ret" =>
        \A k \in 1 .. Len(log) :
            log[k].err # nil =>
                /\ res.err = log[k].err
                /\ \A j \in k + 1 .. Len(log) : ~IsRegOp(log[j])

(***************************************************************************)
(* C10.  setBaudRate writes, at the divisor latch addresses, the low byte  *)
(* and then the high byte of floor((crystalFreq / prescaler) / (baud *     *)
(* 16)), the prescaler being 4 when MCR bit 7 read set and 1 otherwise;    *)
(* for 14745600 Hz, 9600 baud and prescaler 1 the bytes are 96 and 0.      *)
(***************************************************************************)
C10_DivisorBytes ==
    (call = "Open" /\ Len(log) >= 7 /\ log[3].val = testValue
                   /\ \A j \in 1 .. 6 : log[j].err = nil) =>
        LET prescaler == IF Bit(log[4].val, 7) = 1 THEN 4 ELSE 1
            divisor == ExactDivisor(conf.XtalFreq, prescaler, conf.Baud)
        IN  /\ log[4].op = "R" /\ log[4].reg = 32 /\ log[4].err = nil
            /\ log[7].op = "W" /\ log[7].reg = 0
            /\ log[7].val = divisor % 256
            /\ Len(log) >= 8 =>
                  \/ log[8].op = "Close" /\ log[7].err # nil
                  \/ /\ log[8].op = "W" /\ log[8].reg = 8
                     /\ log[8].val = (divisor \div 256) % 256
            /\ (conf.XtalFreq = 14745600 /\ conf.Baud = 9600 /\ prescaler = 1) =>
                  /\ log[7].val = 96
                  /\ Len(log) >= 8 /\ log[8].op = "W" => log[8].val = 0

C10_Witness ==
    /\ Returned("Open")
    /\ res.dev
    /\ conf.XtalFreq = 14745600 /\ conf.Baud = 9600
    /\ log[4].val = 0
    /\ log[7].val = 96 /\ log[7].tgt = "DLL"
    /\ log[8].val = 0 /\ log[8].tgt = "DLH"

(***************************************************************************)
(* The methods called on their own on an opened device, against the chip   *)
(* or against a recording double of the bus: setUARTAttributes (lines      *)
(* 219-253), enableFifo (lines 360-365) and ClearFifo (lines 336-358).     *)
(* The arguments of the call are kept in p.                                *)
(***************************************************************************)
\* the arguments handed to the methods
DataBitsValues == {0, 4, 5, 6, 7, 8, 9}
StopBitsValues == {0, Stop1, Stop2, Stop1Half}
ParityValues == {0, ParityNone, ParityOdd, ParityEven, ParityMark, ParitySpace, 88}
FifoTypes == {RxDFifo, TxDFifo, BothFifo, 3}
\* what a double of the bus answers to a read
DoubleChoices == {0, 1, 64, 128, 193, 255}
UnitReadChoices(wire) == IF faithful THEN ReadChoices(wire) ELSE DoubleChoices

\* entry of a method: nothing of the bus has been touched yet
MethodCall(name, args, at) ==
    /\ Enter(name, args)
    /\ log' = <<>>
    /\ res' = NoRes
    /\ pc' = at
    /\ UNCHANGED timeoutTime

\* the method returned err
MethodReturn(err) ==
    /\ res' = [NoRes EXCEPT !.err = err]
    /\ pc' = "ret"

MethodFrame == UNCHANGED <<faithful, handle, dev, conf, call, p, now, timeoutTime, polls>>

\* setUARTAttributes(dataBits, stopBits, parity), line 219
SetUARTAttributesCall(dataBits, stopBits, parity) ==
    MethodCall("setUARTAttributes", <<dataBits, stopBits, parity>>, "ua_w")

\* setUARTAttributes, lines 221-251
SetUARTAttributesWrite(ok) ==
    /\ pc = "ua_w"
    /\ IF ~ValidDataBits(p[1])
       THEN /\ ok
            /\ UNCHANGED <<log, chip>>
            /\ MethodReturn(ErrUnsupportedDataBits)
       ELSE /\ writeReg("setUARTAttributes", regLCR, lcrAttributes(p[1], p[2], p[3]), ok)
            /\ MethodReturn(ErrOf(ok))
    /\ UNCHANGED local
    /\ MethodFrame

\* enableFifo(useFifo), line 360
EnableFifoCall(useFifo) == MethodCall("enableFifo", <<useFifo>>, "ef_w")

\* enableFifo, lines 361-364
EnableFifoWrite(ok) ==
    /\ pc = "ef_w"
    /\ writeReg("enableFifo", regFCR, IF p[1] THEN 1 ELSE 0, ok)
    /\ MethodReturn(ErrOf(ok))
    /\ UNCHANGED local
    /\ MethodFrame

\* ClearFifo(clearTarget), line 336
ClearFifoCall(clearTarget) == MethodCall("ClearFifo", <<clearTarget>>, "cf_r")

\* ClearFifo, lines 337-340
ClearFifoIIR(v, ok) ==
    /\ pc = "cf_r"
    /\ readReg("ClearFifo", regIIR, v, ok)
    /\ IF ok
       THEN /\ local' = [local EXCEPT !.flags = v]
            /\ pc' = "cf_w"
            /\ UNCHANGED res
       ELSE /\ MethodReturn(ErrOf(ok))
            /\ UNCHANGED local
    /\ MethodFrame

\* ClearFifo, lines 342-357
ClearFifoFCR(ok) ==
    /\ pc = "cf_w"
    /\ writeReg("ClearFifo", regFCR, fcrClear(local.flags, p[1]), ok)
    /\ MethodReturn(ErrOf(ok))
    /\ UNCHANGED local
    /\ MethodFrame

\* the device as Open(Config{Baud: 9600, XtalFreq: 14745600}) returns it, on the
\* chip or on a double of the bus
UnitInit ==
    /\ faithful \in BOOLEAN
    /\ chip = [ResetChip EXCEPT !.SPR = testValue, !.LCR = 3, !.DLL = 96, !.FCR = 1]
    /\ handle = "open"
    /\ dev = [xtalFreq |-> 14745600, timeout |-> 1 * TicksPerSecond, live |-> TRUE]
    /\ conf = NoConf
    /\ call = "none"
    /\ pc = "idle"
    /\ local = NoLocal
    /\ p = <<>>
    /\ log = <<>>
    /\ res = NoRes
    /\ now = 0
    /\ timeoutTime = 0
    /\ polls = 0

UnitNext ==
    \/ \E d \in DataBitsValues, s \in StopBitsValues, par \in ParityValues :
          SetUARTAttributesCall(d, s, par)
    \/ \E ok \in BOOLEAN : SetUARTAttributesWrite(ok)
    \/ \E useFifo \in BOOLEAN : EnableFifoCall(useFifo)
    \/ \E ok \in BOOLEAN : EnableFifoWrite(ok)
    \/ \E t \in FifoTypes : ClearFifoCall(t)
    \/ \E v \in UnitReadChoices(wireAddr(regIIR)), ok \in BOOLEAN : ClearFifoIIR(v, ok)
    \/ \E ok \in BOOLEAN : ClearFifoFCR(ok)

UnitSpec == UnitInit /\ [][UnitNext]_vars

(***************************************************************************)
(* C11.  For data bits 5..8, every stop bits value and every parity value, *)
(* setUARTAttributes writes the Line Control Register exactly once, with   *)
(* bits 1:0 = data bits - 5, bit 2 set iff the stop bits are not One, bits *)
(* 5:3 the parity code (0 for a parity it does not know) and bits 7:6      *)
(* zero; for other data bits it returns UnsupportedDataBits and issues no  *)
(* register transaction.                                                   *)
(***************************************************************************)
C11_LineControlByte ==
    Returned("setUARTAttributes") =>
        LET dataBits == p[1]
            stopBits == p[2]
            parity == p[3]
        IN  IF dataBits \in {5, 6, 7, 8}
            THEN /\ Len(log) = 1
                 /\ log[1].op = "W" /\ log[1].reg = 24
                 /\ log[1].val % 4 = dataBits - 5
                 /\ Bit(log[1].val, 2) = (IF stopBits # 1 THEN 1 ELSE 0)
                 /\ (log[1].val \div 8) % 8 = ParityCode(parity)
                 /\ log[1].val \div 64 = 0
                 /\ res.err = log[1].err
                 /\ (faithful /\ log[1].err = nil) => chip.LCR = log[1].val
            ELSE /\ log = <<>>
                 /\ res.err = ErrUnsupportedDataBits

C11_Witness ==
    /\ Returned("setUARTAttributes")
    /\ faithful
    /\ p = <<7, Stop1Half, ParityEven>>
    /\ res.err = nil
    /\ chip.LCR = 30

(***************************************************************************)
(* C12.  ClearFifo reads the Interrupt Identification Register once and    *)
(* then writes one FIFO Control Register byte: bit 0 is the FIFO enabled   *)
(* state just read (IIR bits 7:6 not both 0), bit 1 is set iff the         *)
(* selector is Receive or Both, bit 2 iff it is Transmit or Both, the      *)
(* other bits are 0; with the FIFO enabled the bytes are 0b011, 0b101 and  *)
(* 0b111.  On the chip a clear leaves the FIFO enable as it was.           *)
(***************************************************************************)
C12_ByteWritten ==
    Returned("ClearFifo") =>
        /\ Len(log) \in {1, 2}
        /\ log[1].op = "R" /\ log[1].reg = 16
        /\ log[1].err # nil => Len(log) = 1 /\ res.err = log[1].err
        /\ log[1].err = nil =>
              /\ Len(log) = 2
              /\ log[2].op = "W" /\ log[2].reg = 16
              /\ res.err = log[2].err
              /\ LET selector == p[1]
                     enabled == (log[1].val \div 64) % 4 # 0
                     b == log[2].val
                 IN  /\ Bit(b, 0) = (IF enabled THEN 1 ELSE 0)
                     /\ Bit(b, 1) = (IF selector \in {0, 2} THEN 1 ELSE 0)
                     /\ Bit(b, 2) = (IF selector \in {1, 2} THEN 1 ELSE 0)
                     /\ b \div 8 = 0
                     /\ (enabled /\ selector = 0) => b = 3
                     /\ (enabled /\ selector = 1) => b = 5
                     /\ (enabled /\ selector = 2) => b = 7

C12_EnableKept == (call = "ClearFifo" /\ faithful) => chip'.FCR = chip.FCR

C12_ClearFifo == [](C12_ByteWritten) /\ [][C12_EnableKept]_vars

C12_Witness ==
    /\ Returned("ClearFifo")
    /\ faithful
    /\ p = <<RxDFifo>>
    /\ res.err = nil
    /\ log[2].val = 3
    /\ chip.FCR = 1

C12_WitnessDisabled ==
    /\ Returned("ClearFifo")
    /\ faithful
    /\ p = <<BothFifo>>
    /\ res.err = nil
    /\ log[2].val = 6
    /\ chip.FCR = 0

(***************************************************************************)
(* C13.  Open uses 8 for data bits 0, None for parity 0, One for stop bits *)
(* 0, 1 for bus index 0 and one second for timeout 0, and uses non-zero    *)
(* fields as they are; it never modifies the caller's Config; with size,   *)
(* parity and stop bits all zero it programs the Line Control Register     *)
(* with 0x03.                                                              *)
(***************************************************************************)
IsAttributes(t) == t.fn = "setUARTAttributes"

C13_FieldsUsed ==
    call = "Open" =>
        LET size == IF conf.Size = 0 THEN 8 ELSE conf.Size
        IN  /\ Len(log) >= 1 =>
                  /\ log[1].op = "NewI2C"
                  /\ log[1].reg = conf.Address
                  /\ log[1].val = (IF conf.Bus = 0 THEN 1 ELSE conf.Bus)
            /\ dev # NoDev =>
                  dev.timeout = (IF conf.Timeout = 0 THEN 1 * TicksPerSecond ELSE conf.Timeout)
            /\ \A k \in 1 .. Len(log) :
                  IsAttributes(log[k]) =>
                     /\ size \in {5, 6, 7, 8}
                     /\ log[k].op = "W" /\ log[k].reg = 24
                     /\ log[k].val = LineControl(conf)
                     /\ (conf.Size = 0 /\ conf.Parity = 0 /\ conf.StopBits = 0) => log[k].val = 3
            /\ (pc = "ret" /\ res.err = ErrUnsupportedDataBits) => size \notin {5, 6, 7, 8}
            /\ (pc = "ret" /\ res.dev /\ faithful
                  /\ conf.Size = 0 /\ conf.Parity = 0 /\ conf.StopBits = 0) => chip.LCR = 3

C13_ConfigKept == (call = "Open" /\ call' = "Open" /\ pc # "ret") => conf' = conf

C13_Defaults == [](C13_FieldsUsed) /\ [][C13_ConfigKept]_vars

C13_Witness ==
    /\ Returned("Open")
    /\ res.dev
    /\ conf.Size = 0 /\ conf.Parity = 0 /\ conf.StopBits = 0 /\ conf.Bus = 0 /\ conf.Timeout = 0
    /\ log[1].val = 1
    /\ dev.timeout = 1 * TicksPerSecond
    /\ chip.LCR = 3

C13_WitnessGiven ==
    /\ Returned("Open")
    /\ res.dev
    /\ conf.Bus = 2 /\ conf.Timeout = 1 /\ conf.Size = 8
    /\ log[1].val = 2
    /\ dev.timeout = 1
    /\ chip.LCR = 63

(***************************************************************************)
(* C14.  setBaudRate issues its register transactions in this order: read  *)
(* MCR; read LCR, write LCR with bit 7 set; write the divisor low byte at  *)
(* the divisor latch low address; write the high byte at the divisor latch *)
(* high address; read LCR, write LCR with bit 7 cleared.  No step of it    *)
(* changes LCR bits 0-6, and when it returns successfully LCR bit 7 is     *)
(* clear.                                                                  *)
(***************************************************************************)
IsBaud(t) == t.fn = "setBaudRate"
\* the operation and the wire address of setBaudRate's k-th transaction
BaudOrder ==
    << <<"R", 32>>, <<"R", 24>>, <<"W", 24>>, <<"W", 0>>, <<"W", 8>>, <<"R", 24>>, <<"W", 24>> >>
BaudPositions ==
    {"baud_peek", "baud_set_r", "baud_set_w", "baud_dll", "baud_dlh", "baud_clr_r", "baud_clr_w"}

C14_Order ==
    call = "Open" =>
        LET b == Indices(IsBaud)
            n == Cardinality(b)
        IN  /\ n <= 7
            /\ b = {} \/ b = 4 .. 3 + n
            /\ \A k \in b : log[k].op = BaudOrder[k - 3][1] /\ log[k].reg = BaudOrder[k - 3][2]
            /\ \A k \in b : k < 3 + n => log[k].err = nil
            /\ n >= 3 => /\ Bit(log[6].val, 7) = 1
                         /\ log[6].val % 128 = log[5].val % 128
            /\ n >= 4 => log[7].val = local.lower
            /\ n >= 5 => log[8].val = local.higher
            /\ n >= 7 => /\ Bit(log[10].val, 7) = 0
                         /\ log[10].val % 128 = log[9].val % 128
            /\ (pc \in {"fifo_w", "attr_w", "clear_r", "clear_w"} \/ (pc = "ret" /\ res.dev)) =>
                  n = 7 /\ log[10].err = nil

C14_LineControlKept ==
    (call = "Open" /\ pc \in BaudPositions) =>
        /\ chip'.LCR % 128 = chip.LCR % 128
        /\ (pc = "baud_clr_w" /\ pc' = "fifo_w") => Bit(chip'.LCR, 7) = 0

C14_BaudSequence == [](C14_Order) /\ [][C14_LineControlKept]_vars

C14_Witness ==
    /\ call = "Open"
    /\ pc = "fifo_w"
    /\ Len(log) = 10
    /\ log[5].val = 63
    /\ log[6].val = 191
    /\ chip.LCR = 63

(***************************************************************************)
(* C15.  Whatever the Line Control Register holds when setBaudRate starts, *)
(* both divisor writes are made while the special register set is selected *)
(* (LCR bit 7 set and LCR not 0xBF), so that they reach the divisor        *)
(* latches.                                                                *)
(***************************************************************************)
IsDivisorWrite(t) == t.fn = "setBaudRate" /\ t.op = "W" /\ t.reg \in {0, 8}

C15_DivisorInSpecialSet ==
    (call = "Open" /\ faithful) =>
        \A k \in Indices(IsDivisorWrite) :
            /\ log[k].reg = 0 => log[k].tgt = "DLL"
            /\ log[k].reg = 8 => log[k].tgt = "DLH"

(***************************************************************************)
(* C16.  A bus transaction that fails inside setBaudRate, testChip,        *)
(* ClearFifo, WriteByte or Read ends the call with that transaction's      *)
(* error and no further register transaction: nothing is retried and       *)
(* nothing is rolled back.  A failure of setBaudRate after it set LCR bit  *)
(* 7 leaves the special register set selected, and a failure of the second *)
(* divisor write leaves the low divisor latch holding the new low byte.    *)
(***************************************************************************)
IsFailedRegOp(t) == t.op \in {"R", "W"} /\ t.err # nil

\* the call ends at the failed transaction with its error
C16_AbortsAtFailure ==
    pc = "ret" =>
        \A k \in Indices(IsFailedRegOp) :
            /\ res.err = log[k].err
            /\ \A j \in 1 .. Len(log) : (j # k /\ IsRegOp(log[j])) => (j < k /\ log[j].err = nil)
            /\ (call = "Open" /\ faithful /\ log[k].fn = "setBaudRate" /\ k >= 7) =>
                  Bit(chip.LCR, 7) = 1

C16_NoRollback ==
    /\ C16_AbortsAtFailure
    /\ (Returned("Open") /\ faithful) =>
          \A k \in Indices(IsFailedRegOp) :
              /\ (log[k].fn = "setBaudRate" /\ k >= 7) => chip.LCR # EnhancedLCR
              /\ (log[k].fn = "setBaudRate" /\ k = 8) => chip.DLL = log[7].val

(***************************************************************************)
(* C17.  The transmit register writes of one Write(p) are p[0], p[1], ...  *)
(* in order, a prefix of p that ends at the first failing byte; each is    *)
(* preceded, in its WriteByte, by a poll that saw LSR bit 5 set; after the *)
(* first error no poll and no write is issued; a successful Write has      *)
(* written all len(p) bytes and returns len(p).                            *)
(***************************************************************************)
IsThrEmptyPoll(t) == t.op = "R" /\ t.reg = 40 /\ t.err = nil /\ Bit(t.val, 5) = 1
IsFailed(t) == t.err # nil

C17_WriteSequence ==
    (call = "Write" /\ pc # "idle") =>
        LET w == Indices(IsWrite)
            m == Cardinality(w)
            ws == SelectSeq(log, IsWrite)
        IN  /\ m <= Len(p)
            /\ \A i \in 1 .. m : ws[i].reg = 0 /\ ws[i].val = p[i]
            /\ \A i \in 1 .. m - 1 : ws[i].err = nil
            /\ \A k \in w : k > 1 /\ IsThrEmptyPoll(log[k - 1])
            /\ \A k \in 1 .. Len(log) : log[k].op = "R" => log[k].reg = 40
            /\ \A k \in 1 .. Len(log) - 1 : IsThrEmptyPoll(log[k]) => log[k + 1].op = "W"
            /\ \A k \in Indices(IsFailed) : k = Len(log) /\ pc = "ret" /\ res.err = log[k].err
            /\ (pc = "ret" /\ res.err = nil) =>
                  /\ m = Len(p)
                  /\ Indices(IsFailed) = {}
                  /\ res.n = Len(p)
            /\ (pc = "ret" /\ res.err # nil) =>
                  /\ Len(log) >= 1
                  /\ IsFailed(log[Len(log)]) \/ (res.err = ErrTimeout /\ log[Len(log)].op = "R")

C17_Witness ==
    /\ Returned("Write")
    /\ res.err = nil
    /\ res.n = 2
    /\ p = <<65, 66>>
    /\ Len(log) = 5
    /\ log[3].op = "R" /\ Bit(log[3].val, 5) = 0

(***************************************************************************)
(* C18.  Every WriteByte, Write and Read returns, provided each bus        *)
(* transaction returns and the clock keeps advancing.  The deadline of a   *)
(* poll loop is the time of its WriteByte's or Read's entry plus the       *)
(* timeout: it is taken once, no poll moves it, and no two calls share it. *)
(***************************************************************************)
InIO == pc \in {"wb_poll", "wb_thr", "rd_poll", "rd_lvl", "rd_byte"}

C18_DeadlineFixed ==
    /\ (Idle /\ pc' \in {"wb_poll", "rd_poll"}) => timeoutTime' = now' + dev.timeout
    /\ (pc = "wb_thr" /\ pc' = "wb_poll") => timeoutTime' = now' + dev.timeout
    /\ (pc \in {"wb_poll", "rd_poll", "rd_lvl", "rd_byte"}) => timeoutTime' = timeoutTime
    /\ (pc = "wb_thr" /\ pc' = "ret") => timeoutTime' = timeoutTime

C18_Terminates == (InIO ~> pc = "ret") /\ [][C18_DeadlineFixed]_vars

C18_Witness ==
    /\ Returned("Write")
    /\ res.err = ErrTimeout
    /\ local.written = 1
    /\ timeoutTime > dev.timeout
    /\ now > timeoutTime

(***************************************************************************)
(* updateRegBit (lines 136-149) called on a device that another execution  *)
(* context uses at the same time.  Nothing in the driver orders the bus    *)
(* transactions of two contexts: a writeReg of the other context (line     *)
(* 132, for instance that of setUARTAttributes, line 251) can land before  *)
(* updateRegBit's read, between its read and its write, or after its       *)
(* write.  Each bus transaction is taken as indivisible.                   *)
(***************************************************************************)
FlagValues == {2, 7}
\* the register writes of the other context: address and value
OtherWrites == {<<regLCR, 3>>, <<regLCR, 27>>, <<regSPR, testValue>>}

\* updateRegBit(reg, flag, value), line 136
UpdateRegBitCall(reg, flag, value) == MethodCall("updateRegBit", <<reg, flag, value>>, "ub_r")

\* updateRegBit, lines 138-141
UpdateRegBitRead(v, ok) ==
    /\ pc = "ub_r"
    /\ readReg("updateRegBit", p[1], v, ok)
    /\ IF ok
       THEN /\ local' = [local EXCEPT !.flags = v]
            /\ pc' = "ub_w"
            /\ UNCHANGED res
       ELSE /\ MethodReturn(ErrOf(ok))
            /\ UNCHANGED local
    /\ MethodFrame

\* updateRegBit, lines 142-148
UpdateRegBitWrite(ok) ==
    /\ pc = "ub_w"
    /\ writeReg("updateRegBit", p[1], updateFlags(local.flags, p[2], p[3]), ok)
    /\ MethodReturn(ErrOf(ok))
    /\ UNCHANGED local
    /\ MethodFrame

IsOther(t) == t.fn = "other"

\* writeReg(reg, v) of the other context, whatever updateRegBit is doing
OtherWriteReg(reg, v, ok) ==
    /\ call = "updateRegBit"
    /\ Cardinality(Indices(IsOther)) < MaxOtherWrites
    /\ writeReg("other", reg, v, ok)
    /\ UNCHANGED <<pc, local, res>>
    /\ MethodFrame

ConcInit == UnitInit /\ faithful = TRUE

ConcNext ==
    \/ \E flag \in FlagValues, value \in BOOLEAN : UpdateRegBitCall(regLCR, flag, value)
    \/ \E v \in ReadChoices(wireAddr(regLCR)), ok \in BOOLEAN : UpdateRegBitRead(v, ok)
    \/ \E ok \in BOOLEAN : UpdateRegBitWrite(ok)
    \/ \E w \in OtherWrites, ok \in BOOLEAN : OtherWriteReg(w[1], w[2], ok)

ConcSpec == ConcInit /\ [][ConcNext]_vars

(***************************************************************************)
(* C19.  updateRegBit's read and write are two bus transactions: a write   *)
(* of another execution context to the same register that lands between   *)
(* them is overwritten, updateRegBit writing back the value it read, stale *)
(* by then, with the addressed bit changed (a lost update).  When no such  *)
(* write lands between them, as when the calls are serialized, the         *)
(* register after updateRegBit differs from the register before it in the  *)
(* addressed bit at most.                                                  *)
(***************************************************************************)
IsOwnRead(t) == t.fn = "updateRegBit" /\ t.op = "R"
\* the writes of the other context that reached the register after the read
WritesBetween ==
    {k \in Indices(IsOther) :
        /\ log[k].err = nil
        /\ log[k].tgt = "LCR"
        /\ \E r \in Indices(IsOwnRead) : r < k}
OtherBits(flag) == (0 .. 7) \ {flag}

C19_UpdateWrite ==
    (call = "updateRegBit" /\ pc = "ub_w" /\ pc' = "ret" /\ res'.err = nil) =>
        /\ Bit(chip'.LCR, p[2]) = (IF p[3] THEN 1 ELSE 0)
        /\ \A b \in OtherBits(p[2]) : Bit(chip'.LCR, b) = Bit(local.flags, b)
        /\ WritesBetween = {} => \A b \in OtherBits(p[2]) : Bit(chip'.LCR, b) = Bit(chip.LCR, b)

C19_NotAtomic == [][C19_UpdateWrite]_vars

\* a lost update: the other context's write is gone from the register
C19_Witness ==
    /\ Returned("updateRegBit")
    /\ res.err = nil
    /\ log[Len(log)].fn = "updateRegBit"
    /\ \E k \in WritesBetween :
          \E b \in OtherBits(p[2]) : Bit(chip.LCR, b) # Bit(log[k].val, b)

(***************************************************************************)
(* Open with the baud rates Open passes through to setBaudRate: it applies *)
(* no default to Baud and checks nothing about it (lines 375-405).         *)
(***************************************************************************)
\* 0; 1, whose divisor needs more than 16 bits; 9600; and 2^28 + 9600, whose
\* product with 16 does not fit in 32 bits
BaudConfigs ==
    { Config(0, 0, 0, 0, 0),
      Config(1, 0, 0, 0, 0),
      Config(9600, 0, 0, 0, 0),
      Config(268435456 + 9600, 0, 0, 0, 0) }

BaudNext ==
    \/ \E c \in BaudConfigs, ok \in BOOLEAN : OpenCall(c, ok)
    \/ \E ok \in BOOLEAN : TestChipWrite(ok)
    \/ \E rv \in ReadChoices(wireAddr(regSPR)), ok \in BOOLEAN : TestChipRead(rv, ok)
    \/ \E v \in ReadChoices(wireAddr(regMCR)), ok \in BOOLEAN : BaudPeek(v, ok)
    \/ \E v \in ReadChoices(wireAddr(regLCR)), ok \in BOOLEAN : BaudSetRead(v, ok)
    \/ \E ok \in BOOLEAN : BaudSetWrite(ok)
    \/ \E ok \in BOOLEAN : BaudDLL(ok)
    \/ \E ok \in BOOLEAN : BaudDLH(ok)
    \/ \E v \in ReadChoices(wireAddr(regLCR)), ok \in BOOLEAN : BaudClrRead(v, ok)
    \/ \E ok \in BOOLEAN : BaudClrWrite(ok)
    \/ \E ok \in BOOLEAN : EnableFifo(ok)
    \/ \E ok \in BOOLEAN : SetUARTAttributes(ok)
    \/ \E v \in ReadChoices(wireAddr(regIIR)), ok \in BOOLEAN : ClearFifoRead(v, ok)
    \/ \E ok \in BOOLEAN : ClearFifoWrite(ok)
    \/ \E ok \in BOOLEAN : OpenClose(ok)
    \/ \E ok \in BOOLEAN : CloseCall(ok)

BaudSpec == Init /\ [][BaudNext]_vars

(***************************************************************************)
(* C20.  For every crystal frequency and baud Open passes through (baud 0, *)
(* a baud whose product with 16 does not fit in 32 bits and a divisor      *)
(* above 0xFFFF included), setBaudRate returns, with success or with an    *)
(* error, and on success the 16-bit value it puts into the two divisor     *)
(* latches is floor((crystalFreq / prescaler) / (baud * 16)), computed     *)
(* without wrap-around and without truncation.                             *)
(***************************************************************************)
\* floor((xtalFreq / prescaler) / (baud * 16)) for baud > 0, the product not formed
ExactQuotient(xtalFreq, prescaler, baud) == ((xtalFreq \div prescaler) \div baud) \div 16

C20_BaudRate ==
    /\ pc # "panic"
    /\ (call = "Open" /\ Cardinality(Indices(IsBaud)) = 7 /\ log[10].err = nil /\ conf.Baud > 0) =>
          log[7].val + 256 * log[8].val =
              ExactQuotient(conf.XtalFreq, IF Bit(log[4].val, 7) = 1 THEN 4 ELSE 1, conf.Baud)

====
